---- MODULE Spec2Model ----
(***************************************************************************)
(* PopStock (src/app.py): a Streamlit inventory tracker over one JSON      *)
(* file.  Every user interaction is one run of the script: load_data()     *)
(* reads (and migrates) the backing file into a table, the page handler    *)
(* mutates the table and save_data() overwrites the file.  The page and    *)
(* the view mode of the sidebar select which widgets a run renders; they   *)
(* are inputs of the run, so each action is the run of one widget's        *)
(* handler on the page and in the view that show that widget.              *)
(*                                                                         *)
(* A stored record (a JSON object) is a function from the field names it   *)
(* holds to their values.  The table (pandas DataFrame) is a sequence of   *)
(* rows over the union of the columns; a cell a record did not supply is   *)
(* NaN.  NaN is written NaNNum in numeric columns and NaNStr in text       *)
(* columns.                                                                *)
(***************************************************************************)
EXTENDS Integers, Sequences, FiniteSets, TLC

VARIABLES file, df, now, confirm, steps, last, settings, alert

vars == <<file, df, now, confirm, steps, last, settings, alert>>

(* ------------------------------ bounds -------------------------------- *)
\* number of widget interactions (runs that execute a handler) explored
MaxSteps == 2
\* number of calendar months the clock can reach
NumMonths == 2

(* ---------------------------- configuration --------------------------- *)
LATEX_SIZES == <<"5in", "11in", "17in", "24in", "32in">>

LatexSizeSet == {LATEX_SIZES[i] : i \in 1..Len(LATEX_SIZES)}

FoilSizeSet == {"small", "large"}

NumFields == LatexSizeSet \cup FoilSizeSet \cup {"id", "usage"}

AllFields == {"id", "category", "brand", "color", "hex", "foil_type", "design",
              "monthly_usage"} \cup LatexSizeSet \cup FoilSizeSet

NaNNum == -1

NaNStr == "NaN"

NaN(c) == IF c \in NumFields THEN NaNNum ELSE NaNStr

IsNaN(v) == v = NaNNum

\* a row holds a field when the column exists and the cell is not NaN
Holds(row, c) ==
  c \in DOMAIN row /\ (c = "monthly_usage" \/ row[c] # NaN(c))

\* datetime.now().strftime("%Y-%m") at clock position n
MonthNames == <<"2026-01", "2026-02", "2026-03", "2026-04">>

current_month_str(n) == MonthNames[n]

EmptyUsage == [k \in {} |-> 0]

\* a JSON object without keys
NoFields == [k \in {} |-> 0]

\* dict.get(key, 0)
Get(d, k) == IF k \in DOMAIN d THEN d[k] ELSE 0

Without(e, k) == [c \in DOMAIN e \ {k} |-> e[c]]

(* ------------------------------ load_data ----------------------------- *)
\* a seed of one latex and one foil record
initial_data_pair ==
  << ("id" :> 1 @@ "category" :> "latex" @@ "brand" :> "Tuftex"
      @@ "color" :> "Burnt Orange" @@ "hex" :> "#CC5500"
      @@ "5in" :> 2 @@ "11in" :> 5 @@ "17in" :> 1 @@ "24in" :> 0 @@ "32in" :> 0
      @@ "monthly_usage" :> EmptyUsage),
     ("id" :> 3 @@ "category" :> "foil" @@ "foil_type" :> "Number"
      @@ "design" :> "1" @@ "color" :> "Gold" @@ "hex" :> "#D4AF37"
      @@ "small" :> 2 @@ "large" :> 4
      @@ "monthly_usage" :> ("2026-01" :> 1)) >>

initial_data ==
  << ("id" :> 1 @@ "category" :> "latex" @@ "brand" :> "Tuftex"
      @@ "color" :> "Burnt Orange" @@ "hex" :> "#CC5500"
      @@ "5in" :> 2 @@ "11in" :> 5 @@ "17in" :> 1 @@ "24in" :> 0 @@ "32in" :> 0
      @@ "monthly_usage" :> EmptyUsage),
     ("id" :> 2 @@ "category" :> "latex" @@ "brand" :> "Sempertex"
      @@ "color" :> "White Sand" @@ "hex" :> "#E8E3D9"
      @@ "5in" :> 10 @@ "11in" :> 8 @@ "17in" :> 4 @@ "24in" :> 2 @@ "32in" :> 1
      @@ "monthly_usage" :> ("2025-02" :> 5)),
     ("id" :> 3 @@ "category" :> "foil" @@ "foil_type" :> "Number"
      @@ "design" :> "1" @@ "color" :> "Gold" @@ "hex" :> "#D4AF37"
      @@ "small" :> 2 @@ "large" :> 4
      @@ "monthly_usage" :> ("2026-01" :> 1)),
     ("id" :> 4 @@ "category" :> "foil" @@ "foil_type" :> "Shape"
      @@ "design" :> "Dinosaur" @@ "color" :> "Green" @@ "hex" :> "#228B22"
      @@ "small" :> 0 @@ "large" :> 2
      @@ "monthly_usage" :> EmptyUsage) >>

\* The four migration steps thread the pair (entry, needs_save).
MigrateCategory(s) ==
  IF "category" \notin DOMAIN s.entry
  THEN [entry |-> ("category" :> "latex") @@ s.entry, needs_save |-> TRUE]
  ELSE s

MigrateFoil(s) ==
  IF "foil_type" \notin DOMAIN s.entry
  THEN [entry |-> ("foil_type" :> "" @@ "design" :> "" @@ "small" :> 0
                   @@ "large" :> 0) @@ s.entry,
        needs_save |-> TRUE]
  ELSE s

\* step 3 without raising needs_save
Migrate32Silent(s) ==
  IF "32in" \notin DOMAIN s.entry
  THEN [entry |-> ("32in" :> 0) @@ s.entry, needs_save |-> s.needs_save]
  ELSE s

Migrate32(s) ==
  IF "32in" \notin DOMAIN s.entry
  THEN [entry |-> ("32in" :> 0) @@ s.entry, needs_save |-> TRUE]
  ELSE s

\* step 4 keyed on the legacy field, which it keeps
MigrateUsageAgain(s, m) ==
  IF "monthly_usage" \notin DOMAIN s.entry \/ "usage" \in DOMAIN s.entry
  THEN LET usage_val == Get(s.entry, "usage")
           old == IF "monthly_usage" \in DOMAIN s.entry
                  THEN s.entry["monthly_usage"] ELSE EmptyUsage
           mu == IF usage_val > 0 THEN (m :> usage_val) @@ old ELSE old
       IN [entry |-> ("monthly_usage" :> mu) @@ s.entry, needs_save |-> TRUE]
  ELSE s

\* step 4 attributing a usage of zero as well
MigrateUsageZero(s, m) ==
  IF "monthly_usage" \notin DOMAIN s.entry
  THEN LET usage_val == Get(s.entry, "usage")
           mu == IF usage_val >= 0 THEN (m :> usage_val) ELSE EmptyUsage
       IN [entry |-> Without(("monthly_usage" :> mu) @@ s.entry, "usage"),
           needs_save |-> TRUE]
  ELSE s

MigrateUsage(s, m) ==
  IF "monthly_usage" \notin DOMAIN s.entry
  THEN LET usage_val == Get(s.entry, "usage")
           mu == IF usage_val > 0 THEN (m :> usage_val) ELSE EmptyUsage
       IN [entry |-> Without(("monthly_usage" :> mu) @@ s.entry, "usage"),
           needs_save |-> TRUE]
  ELSE s

MigrateEntry(entry, m) ==
  MigrateUsage(Migrate32(MigrateFoil(MigrateCategory(
      [entry |-> entry, needs_save |-> FALSE]))), m)

\* pd.DataFrame(list of dicts): columns are the union of the keys
DataFrame(data) ==
  LET cols == UNION {DOMAIN data[i] : i \in 1..Len(data)}
  IN [i \in 1..Len(data) |->
        [c \in cols |-> IF c \in DOMAIN data[i] THEN data[i][c] ELSE NaN(c)]]

\* df.to_dict(orient="records"): every row carries every column, NaN included
to_dict(d) == [i \in 1..Len(d) |-> d[i]]

AbsentFile == [state |-> "absent", data |-> <<>>]

MalformedFile == [state |-> "malformed", data |-> <<>>]

OkFile(data) == [state |-> "ok", data |-> data]

\* load_data() seeding a file that does not parse as it seeds an absent one
load_data_reseed(f, n) ==
  LET seeded == f.state # "ok"
      data == IF seeded THEN initial_data ELSE f.data
      mig == [i \in 1..Len(data) |-> MigrateEntry(data[i], current_month_str(n))]
      out == [i \in 1..Len(data) |-> mig[i].entry]
      needs_save == \E i \in 1..Len(data) : mig[i].needs_save
  IN [file |-> IF needs_save THEN OkFile(out) ELSE OkFile(data),
      df |-> DataFrame(out),
      seedWrites |-> IF seeded THEN 1 ELSE 0,
      writeBacks |-> IF needs_save THEN 1 ELSE 0]

\* load_data(): the file it leaves, the table it returns and the writes made
load_data(f, n) ==
  LET seeded == f.state = "absent"
      f1 == IF seeded THEN OkFile(initial_data) ELSE f
  IN IF f1.state = "malformed"
     THEN [file |-> f1, df |-> <<>>, seedWrites |-> 0, writeBacks |-> 0]
     ELSE LET data == f1.data
              mig == [i \in 1..Len(data) |->
                        MigrateEntry(data[i], current_month_str(n))]
              out == [i \in 1..Len(data) |-> mig[i].entry]
              needs_save == \E i \in 1..Len(data) : mig[i].needs_save
          IN [file |-> IF needs_save THEN OkFile(out) ELSE f1,
              df |-> DataFrame(out),
              seedWrites |-> IF seeded THEN 1 ELSE 0,
              writeBacks |-> IF needs_save THEN 1 ELSE 0]

\* a save that leaves NaN cells out of the written records
save_data_dropna(d) ==
  OkFile([i \in 1..Len(d) |->
            [c \in {x \in DOMAIN d[i] : Holds(d[i], x)} |-> d[i][c]]])

save_data(d) == OkFile(to_dict(d))

(* --------------------------- table operations ------------------------- *)
\* arithmetic on a cell that may be NaN
Plus(q, k) == IF IsNaN(q) THEN NaNNum ELSE q + k

SetCell(d, i, c, v) == [d EXCEPT ![i] = [@ EXCEPT ![c] = v]]

\* the usage written back as a dict of the current month alone
AddUsageOnly(d, i, m, amount) ==
  SetCell(d, i, "monthly_usage", m :> (Get(d[i]["monthly_usage"], m) + amount))

\* usage_dict[current_month_str] = usage_dict.get(current_month_str, 0) + amount
AddUsage(d, i, m, amount) ==
  LET usage_dict == d[i]["monthly_usage"]
      updated == (m :> (Get(usage_dict, m) + amount)) @@ usage_dict
  IN SetCell(d, i, "monthly_usage", updated)

\* desktop minus button: the table after the handler and whether it saved
DesktopSub(d, i, field, m) ==
  LET qty == d[i][field]
  IN IF ~IsNaN(qty) /\ qty > 0
     THEN [df |-> AddUsage(SetCell(d, i, field, qty - 1), i, m, 1), saved |-> TRUE]
     ELSE [df |-> d, saved |-> FALSE]

\* the plus button with the usage lines of the minus button copied in
DesktopAddCounted(d, i, field) ==
  LET usage_dict == d[i]["monthly_usage"]
  IN SetCell(SetCell(d, i, field, Plus(d[i][field], 1)), i, "monthly_usage",
             [k \in DOMAIN usage_dict |-> usage_dict[k] + 1])

\* desktop plus button
DesktopAdd(d, i, field) == SetCell(d, i, field, Plus(d[i][field], 1))

\* the mobile edit counting one unit whatever the difference
MobileQtyOne(d, i, field, new_qty, m) ==
  LET qty == d[i][field]
      d1 == IF new_qty < qty THEN AddUsage(d, i, m, 1) ELSE d
  IN SetCell(d1, i, field, new_qty)

\* mobile number input changed to new_qty
MobileQty(d, i, field, new_qty, m) ==
  LET qty == d[i][field]
      d1 == IF new_qty < qty THEN AddUsage(d, i, m, qty - new_qty) ELSE d
  IN SetCell(d1, i, field, new_qty)

\* st.text_input(value=...) casts its initial value to str
Str(v) == IF v = NaNStr THEN "nan" ELSE v

foil_types == <<"Number", "Letter", "Shape">>

\* the selectbox starts on the row's type, or on the first type
DefaultFoilType(row) ==
  IF \E k \in 1..Len(foil_types) : foil_types[k] = row["foil_type"]
  THEN row["foil_type"] ELSE foil_types[1]

\* Save Changes of a latex row
SaveLatex(d, i, form) ==
  [d EXCEPT ![i] = [@ EXCEPT !["brand"] = form.brand, !["color"] = form.color,
                             !["hex"] = form.hex]]

\* Save Changes of a foil row
SaveFoil(d, i, form) ==
  [d EXCEPT ![i] = [@ EXCEPT !["brand"] = form.brand, !["color"] = form.color,
                             !["design"] = form.design,
                             !["foil_type"] = form.foil_type, !["hex"] = form.hex]]

\* df.drop(index, inplace=True)
Drop(d, i) == [k \in 1..(Len(d) - 1) |-> IF k < i THEN d[k] ELSE d[k + 1]]

Max(S) == CHOOSE x \in S : \A y \in S : y <= x

\* df['id'].max() skips NaN
IdMax(d) == Max({d[k]["id"] : k \in 1..Len(d)} \ {NaNNum})

\* the id without the guard for an empty table: max() of nothing is NaN
new_id_unguarded(d) == IF Len(d) # 0 THEN IdMax(d) + 1 ELSE NaNNum

\* the id taken from the number of rows instead of the largest id
new_id_count(d) == Len(d)

new_id(d) == IF Len(d) # 0 THEN IdMax(d) + 1 ELSE 1

new_row(d, form) ==
  "id" :> new_id(d) @@ "category" :> form.category @@ "brand" :> form.brand
  @@ "color" :> form.color @@ "hex" :> form.hex
  @@ "foil_type" :> form.foil_type @@ "design" :> form.design
  @@ "5in" :> 0 @@ "11in" :> 0 @@ "17in" :> 0 @@ "24in" :> 0 @@ "32in" :> 0
  @@ "small" :> 0 @@ "large" :> 0 @@ "monthly_usage" :> EmptyUsage

\* pd.concat([df, pd.DataFrame([new_row])], ignore_index=True)
Concat(d, row) == DataFrame(to_dict(d) \o <<row>>)

AddManually(d, form) == Concat(d, new_row(d, form))

(* ------------------------------ scanning ------------------------------ *)
\* str.lower() on the strings that occur
LowerTable ==
  "Tuftex" :> "tuftex" @@ "TUFTEX" :> "tuftex" @@ "Sempertex" :> "sempertex"
  @@ "Burnt Orange" :> "burnt orange" @@ "BURNT ORANGE" :> "burnt orange"
  @@ "White Sand" :> "white sand" @@ "Gold" :> "gold" @@ "GOLD" :> "gold"
  @@ "Green" :> "green" @@ "Anagram" :> "anagram" @@ "ANAGRAM" :> "anagram"
  @@ "Star" :> "star" @@ "STAR" :> "star" @@ "Dinosaur" :> "dinosaur"
  @@ "Number" :> "number" @@ "Letter" :> "letter" @@ "Shape" :> "shape"
  @@ "Qualatex" :> "qualatex" @@ "Red" :> "red" @@ "Unknown" :> "unknown"

Lower(s) == IF s \in DOMAIN LowerTable THEN LowerTable[s] ELSE s

\* Series.str.lower() == value.lower(): a NaN cell compares unequal
SameText(cell, value) == cell # NaNStr /\ Lower(cell) = Lower(value)

\* item.get(key, default)
ItemGet(item, k, default) == IF k \in DOMAIN item THEN item[k] ELSE default

Min(S) == CHOOSE x \in S : \A y \in S : x <= y

\* rows selected by the latex mask
LatexMask(d, item) ==
  {k \in 1..Len(d) :
     /\ d[k]["category"] = "latex"
     /\ SameText(d[k]["brand"], ItemGet(item, "brand", "Unknown"))
     /\ SameText(d[k]["color"], ItemGet(item, "color", "Unknown"))}

\* rows selected by the foil mask
FoilMask(d, item) ==
  {k \in 1..Len(d) :
     /\ d[k]["category"] = "foil"
     /\ SameText(d[k]["brand"], ItemGet(item, "brand", "Unknown"))
     /\ SameText(d[k]["color"], ItemGet(item, "color", "Unknown"))
     /\ SameText(d[k]["design"], ItemGet(item, "design", "Unknown"))}

\* the size field with the default turned round: large unless "small"
SizeFieldLarge(item) == IF ItemGet(item, "size", "None") = "small" THEN "small" ELSE "large"

SizeField(item) == IF ItemGet(item, "size", "None") = "large" THEN "large" ELSE "small"

\* one pass of the loop body over the pair (df, updated_count)
ScanItem(s, item) ==
  LET d == s.df
      category == ItemGet(item, "category", "None")
      size == ItemGet(item, "size", "None")
  IN IF category = "latex"
     THEN IF size \notin LatexSizeSet THEN s
          ELSE IF LatexMask(d, item) # {}
               THEN LET idx == Min(LatexMask(d, item))
                    IN [df |-> SetCell(d, idx, size, Plus(d[idx][size], 1)),
                        updated_count |-> s.updated_count + 1]
               ELSE s
     ELSE IF category = "foil"
          THEN IF FoilMask(d, item) # {}
               THEN LET idx == Min(FoilMask(d, item))
                        f == SizeField(item)
                    IN [df |-> SetCell(d, idx, f, Plus(d[idx][f], 1)),
                        updated_count |-> s.updated_count + 1]
               ELSE s
          ELSE s

\* the loop leaving at the first latex candidate of unknown size
RECURSIVE ScanLoopBreak(_, _)
ScanLoopBreak(s, items) ==
  IF items = <<>> THEN s
  ELSE IF /\ ItemGet(Head(items), "category", "None") = "latex"
          /\ ItemGet(Head(items), "size", "None") \notin LatexSizeSet
       THEN s
       ELSE ScanLoopBreak(ScanItem(s, Head(items)), Tail(items))

RECURSIVE ScanLoop(_, _)
ScanLoop(s, items) ==
  IF items = <<>> THEN s ELSE ScanLoop(ScanItem(s, Head(items)), Tail(items))

\* the Analyze Image handler on the detected items; on a table without
\* columns (empty or unparseable file) the mask raises KeyError, which ends
\* the run before any save, as the loop does when nothing matches
ScanShipment(d, items) == ScanLoop([df |-> d, updated_count |-> 0], items)

\* the exception handler that returns [] without st.error
analyze_image_silent(api_key, response) ==
  IF ~api_key
  THEN [items |-> <<>>, msg |-> "Gemini API Key not found"]
  ELSE IF response.kind \in {"raise", "garbage"}
       THEN [items |-> <<>>, msg |-> ""]
       ELSE [items |-> response.items, msg |-> ""]

\* analyze_image_with_gemini: the detected items and the st.error message.
\* api_key: the secret is present and not empty; response: generate_content
\* raised, or returned text that json.loads rejects, or a JSON list
analyze_image_with_gemini(api_key, response) ==
  IF ~api_key
  THEN [items |-> <<>>, msg |-> "Gemini API Key not found"]
  ELSE IF response.kind \in {"raise", "garbage"}
       THEN [items |-> <<>>, msg |-> "AI Error"]
       ELSE [items |-> response.items, msg |-> ""]

(* ------------------------------- inputs ------------------------------- *)
\* the size buttons and inputs the user operates
ClickedLatexSizes == {"24in"}

ClickedFoilSizes == {"small"}

RowFields(row) ==
  IF row["category"] = "latex" THEN ClickedLatexSizes
  ELSE IF row["category"] = "foil" THEN ClickedFoilSizes ELSE {}

\* values typed into a mobile number input (min_value=0)
QtyInputs == {0, 6}

LatexForms(row) ==
  { [brand |-> Str(row["brand"]), color |-> Str(row["color"]), hex |-> row["hex"]],
    [brand |-> "TUFTEX", color |-> Str(row["color"]), hex |-> "#FFFFFF"] }

FoilForms(row) ==
  { [brand |-> Str(row["brand"]), color |-> Str(row["color"]),
     design |-> Str(row["design"]), foil_type |-> DefaultFoilType(row),
     hex |-> row["hex"]],
    [brand |-> "Anagram", color |-> Str(row["color"]), design |-> "Star",
     foil_type |-> "Letter", hex |-> row["hex"]] }

AddForms ==
  { [category |-> "latex", brand |-> "Tuftex", color |-> "Gold", hex |-> "#D4AF37",
     foil_type |-> "", design |-> ""],
    [category |-> "foil", brand |-> "Anagram", color |-> "Gold", hex |-> "#D4AF37",
     foil_type |-> "Number", design |-> "Star"] }

Candidates ==
  { "category" :> "latex" @@ "brand" :> "TUFTEX" @@ "color" :> "burnt orange"
      @@ "size" :> "11in",
    "category" :> "latex" @@ "brand" :> "Sempertex" @@ "color" :> "White Sand"
      @@ "size" :> "12in",
    "category" :> "latex" @@ "brand" :> "Qualatex" @@ "color" :> "Red"
      @@ "size" :> "5in",
    "category" :> "foil" @@ "brand" :> "ANAGRAM" @@ "color" :> "GOLD"
      @@ "foil_type" :> "Letter" @@ "design" :> "STAR" @@ "size" :> "medium" }

\* the JSON lists the service answers with
Batches ==
  {<<>>} \cup {<<a>> : a \in Candidates}
  \cup {<<a, b>> : a, b \in {c \in Candidates : c["size"] \in {"11in", "12in"}}}

\* what generate_content does: raise, answer text that is not JSON, or
\* answer a JSON list
Responses ==
  {[kind |-> "raise", items |-> <<>>], [kind |-> "garbage", items |-> <<>>]}
  \cup {[kind |-> "json", items |-> b] : b \in Batches}

\* the secret and the service at one press of Analyze Image
Calls ==
  {[api_key |-> FALSE, response |-> [kind |-> "raise", items |-> <<>>]]}
  \cup {[api_key |-> TRUE, response |-> r] : r \in Responses}

CallKind(call) == IF call.api_key THEN call.response.kind ELSE "no key"

\* a backing file left by the first version of the app
LegacyData ==
  << ("id" :> 2 @@ "brand" :> "Qualatex" @@ "color" :> "Red" @@ "hex" :> "#FF0000"
      @@ "5in" :> 1 @@ "11in" :> 3 @@ "17in" :> 0 @@ "24in" :> 0 @@ "usage" :> 3),
     ("id" :> 5 @@ "brand" :> "Tuftex" @@ "color" :> "Gold" @@ "hex" :> "#D4AF37"
      @@ "5in" :> 0 @@ "11in" :> 1 @@ "17in" :> 2 @@ "24in" :> 0 @@ "usage" :> 0) >>

InitFiles == {AbsentFile, MalformedFile}

\* records of every earlier schema: which of the later fields they hold
LegacyBase ==
  "id" :> 7 @@ "brand" :> "Tuftex" @@ "color" :> "Gold" @@ "hex" :> "#D4AF37"
  @@ "5in" :> 0 @@ "11in" :> 1 @@ "17in" :> 2 @@ "24in" :> 0

LegacyParts ==
  [category : {NoFields, "category" :> "foil"},
   foil : {NoFields,
           "design" :> "Star" @@ "small" :> 2 @@ "large" :> 1,
           "foil_type" :> "Shape" @@ "design" :> "Star" @@ "small" :> 2
             @@ "large" :> 1},
   size32 : {NoFields, "32in" :> 4},
   monthly : {NoFields, "monthly_usage" :> ("2025-12" :> 2)},
   usage : {NoFields, "usage" :> 0, "usage" :> 3}]

LegacyEntries ==
  {p.category @@ p.foil @@ p.size32 @@ p.monthly @@ p.usage @@ LegacyBase :
     p \in LegacyParts}

\* backing files found by the first run: absent, corrupt, or left by an
\* earlier version of the app
LegacyFiles ==
  {AbsentFile, MalformedFile, OkFile(LegacyData)}
  \cup {OkFile(<<e>>) : e \in LegacyEntries}
  \cup {OkFile(<<LegacyData[1], e>>) : e \in LegacyEntries}

(* ------------------------------ thresholds ---------------------------- *)
DEFAULT_THRESHOLDS ==
  "5in" :> [low |-> 2, medium |-> 5] @@ "11in" :> [low |-> 2, medium |-> 5]
  @@ "17in" :> [low |-> 1, medium |-> 3] @@ "24in" :> [low |-> 1, medium |-> 2]
  @@ "32in" :> [low |-> 1, medium |-> 2]

\* latex_settings.json
AbsentSettings == [state |-> "absent", data |-> <<>>]

OkSettings(t) == [state |-> "ok", data |-> t]

\* load_settings: the file afterwards and the thresholds returned
load_settings(s) ==
  IF s.state = "absent"
  THEN [file |-> OkSettings(DEFAULT_THRESHOLDS), thresholds |-> DEFAULT_THRESHOLDS]
  ELSE [file |-> s, thresholds |-> s.data]

save_settings(settings_data) == OkSettings(settings_data)

\* the alert colour with the bounds excluded
color_alert_strict(qty, thresholds) ==
  IF IsNaN(qty) THEN "green"
  ELSE IF qty < thresholds.low THEN "red"
  ELSE IF qty < thresholds.medium THEN "orange"
  ELSE "green"

\* the alert colour of a latex quantity; a comparison with NaN is False
color_alert(qty, thresholds) ==
  IF IsNaN(qty) THEN "green"
  ELSE IF qty <= thresholds.low THEN "red"
  ELSE IF qty <= thresholds.medium THEN "orange"
  ELSE "green"

\* the colours the Inventory page shows for the latex rows
Rendered(d, latex_thresholds) ==
  [k \in {i \in 1..Len(d) : d[i]["category"] = "latex"} |->
     [size \in LatexSizeSet |-> color_alert(d[k][size], latex_thresholds[size])]]

\* a page without the latex rows
NoAlert == <<>>

\* what the Settings form can hold: low >= 0 and medium >= low
ThresholdInputs ==
  { DEFAULT_THRESHOLDS,
    [size \in LatexSizeSet |-> [low |-> 1, medium |-> 3]],
    [size \in LatexSizeSet |-> [low |-> 0, medium |-> 0]] }

(* ------------------------------- actions ------------------------------ *)
\* every run starts with latex_thresholds = load_settings()
RunSettings == settings' = load_settings(settings).file

\* the run ends on the Inventory page, by itself or through st.rerun()
RenderInventory == alert' = Rendered(df', load_settings(settings).thresholds)

\* the run ends on a page without the inventory
RenderOther == alert' = NoAlert

NoRun ==
  [op |-> "none", id |-> 0, field |-> "", old |-> 0, new |-> 0,
   seedWrites |-> 0, writeBacks |-> 0, saves |-> 0,
   call |-> "", msg |-> "", items |-> <<>>]

\* what the run just made did: its handler, the row and cell it acted on;
\* for a scan also the outcome of the service call, the st.error message
\* and the detected items
Ran(op, id, field, old, new, L, saves) ==
  [op |-> op, id |-> id, field |-> field, old |-> old, new |-> new,
   seedWrites |-> L.seedWrites, writeBacks |-> L.writeBacks, saves |-> saves,
   call |-> "", msg |-> "", items |-> <<>>]

Init ==
  /\ file \in InitFiles
  /\ df = <<>>
  /\ now = 1
  /\ confirm = {}
  /\ steps = 0
  /\ last = NoRun
  /\ settings = AbsentSettings
  /\ alert = NoAlert

\* the month changes
Tick ==
  /\ now < NumMonths
  /\ now' = now + 1
  /\ UNCHANGED <<file, df, confirm, steps, last, settings, alert>>

\* a run that only loads and renders: first visit, page or view change
View ==
  LET L == load_data(file, now)
  IN /\ file' = L.file
     /\ df' = L.df
     /\ last' = Ran("view", 0, "", 0, 0, L, 0)
     /\ UNCHANGED <<now, confirm, steps>>
     /\ RunSettings
     /\ RenderInventory

\* a widget can be operated once a run has rendered it
CanClick == last.op # "none" /\ steps < MaxSteps

ClickSub ==
  /\ CanClick
  /\ LET L == load_data(file, now)
     IN \E i \in 1..Len(L.df) : \E field \in RowFields(L.df[i]) :
          LET R == DesktopSub(L.df, i, field, current_month_str(now))
          IN /\ df' = R.df
             /\ file' = IF R.saved THEN save_data(R.df) ELSE L.file
             /\ last' = Ran("sub", L.df[i]["id"], field, L.df[i][field],
                            R.df[i][field], L, IF R.saved THEN 1 ELSE 0)
  /\ steps' = steps + 1
  /\ UNCHANGED <<now, confirm>>
  /\ RunSettings
  /\ RenderInventory

ClickAdd ==
  /\ CanClick
  /\ LET L == load_data(file, now)
     IN \E i \in 1..Len(L.df) : \E field \in RowFields(L.df[i]) :
          LET d == DesktopAdd(L.df, i, field)
          IN /\ df' = d
             /\ file' = save_data(d)
             /\ last' = Ran("add", L.df[i]["id"], field, L.df[i][field],
                            d[i][field], L, 1)
  /\ steps' = steps + 1
  /\ UNCHANGED <<now, confirm>>
  /\ RunSettings
  /\ RenderInventory

EditQty ==
  /\ CanClick
  /\ LET L == load_data(file, now)
     IN \E i \in 1..Len(L.df) : \E field \in RowFields(L.df[i]) :
        \E new_qty \in QtyInputs :
          LET d == MobileQty(L.df, i, field, new_qty, current_month_str(now))
          IN /\ ~IsNaN(L.df[i][field])
             /\ new_qty # L.df[i][field]
             /\ df' = d
             /\ file' = save_data(d)
             /\ last' = Ran("qty", L.df[i]["id"], field, L.df[i][field],
                            d[i][field], L, 1)
  /\ steps' = steps + 1
  /\ UNCHANGED <<now, confirm>>
  /\ RunSettings
  /\ RenderInventory

SaveChanges ==
  /\ CanClick
  /\ LET L == load_data(file, now)
     IN \E i \in 1..Len(L.df) :
          LET row == L.df[i]
              forms == IF row["category"] = "latex" THEN LatexForms(row)
                       ELSE IF row["category"] = "foil" THEN FoilForms(row) ELSE {}
          IN \E form \in forms :
               LET d == IF row["category"] = "latex" THEN SaveLatex(L.df, i, form)
                        ELSE SaveFoil(L.df, i, form)
               IN /\ df' = d
                  /\ file' = save_data(d)
                  /\ last' = Ran("edit", row["id"], "", 0, 0, L, 1)
  /\ steps' = steps + 1
  /\ UNCHANGED <<now, confirm>>
  /\ RunSettings
  /\ RenderInventory

\* the Confirm Delete checkbox of a row is ticked or cleared
ToggleConfirm ==
  /\ CanClick
  /\ LET L == load_data(file, now)
     IN /\ \E i \in 1..Len(L.df) :
             LET id == L.df[i]["id"]
             IN /\ confirm' = IF id \in confirm THEN confirm \ {id}
                              ELSE confirm \cup {id}
                /\ last' = Ran("confirm", id, "", 0, 0, L, 0)
        /\ df' = L.df
        /\ file' = L.file
  /\ steps' = steps + 1
  /\ UNCHANGED now
  /\ RunSettings
  /\ RenderInventory

\* the delete button shown without the Confirm Delete checkbox
DeleteUnconfirmed ==
  /\ CanClick
  /\ LET L == load_data(file, now)
     IN \E i \in 1..Len(L.df) :
          LET d == Drop(L.df, i)
          IN /\ df' = d
             /\ file' = save_data(d)
             /\ confirm' = confirm \ {L.df[i]["id"]}
             /\ last' = Ran("delete", L.df[i]["id"], "", 0, 0, L, 1)
  /\ steps' = steps + 1
  /\ UNCHANGED now
  /\ RunSettings
  /\ RenderInventory

Delete ==
  /\ CanClick
  /\ LET L == load_data(file, now)
     IN \E i \in 1..Len(L.df) :
          LET d == Drop(L.df, i)
          IN /\ L.df[i]["id"] \in confirm
             /\ df' = d
             /\ file' = save_data(d)
             /\ confirm' = confirm \ {L.df[i]["id"]}
             /\ last' = Ran("delete", L.df[i]["id"], "", 0, 0, L, 1)
  /\ steps' = steps + 1
  /\ UNCHANGED now
  /\ RunSettings
  /\ RenderInventory

CreateEntry ==
  /\ CanClick
  /\ LET L == load_data(file, now)
     IN \E form \in AddForms :
          LET d == AddManually(L.df, form)
          IN /\ df' = d
             /\ file' = save_data(d)
             /\ last' = Ran("create", new_id(L.df), "", 0, 0, L, 1)
  /\ steps' = steps + 1
  /\ UNCHANGED <<now, confirm>>
  /\ RunSettings
  /\ RenderOther

AnalyzeImage ==
  /\ CanClick
  /\ LET L == load_data(file, now)
     IN \E call \in Calls :
          LET A == analyze_image_with_gemini(call.api_key, call.response)
              R == ScanShipment(L.df, A.items)
          IN /\ df' = R.df
             /\ file' = IF R.updated_count > 0 THEN save_data(R.df) ELSE L.file
             /\ last' = [Ran("scan", 0, "", 0, R.updated_count, L,
                             IF R.updated_count > 0 THEN 1 ELSE 0)
                           EXCEPT !.call = CallKind(call), !.msg = A.msg,
                                  !.items = A.items]
  /\ steps' = steps + 1
  /\ UNCHANGED <<now, confirm>>
  /\ RunSettings
  /\ RenderOther

Next ==
  \/ Tick
  \/ View
  \/ ClickSub
  \/ ClickAdd
  \/ EditQty
  \/ SaveChanges
  \/ ToggleConfirm
  \/ Delete
  \/ CreateEntry
  \/ AnalyzeImage

Spec == Init /\ [][Next]_vars

\* the runs that only load, over the backing files of every earlier schema
InitLoad ==
  /\ file \in LegacyFiles
  /\ df = <<>>
  /\ now = 1
  /\ confirm = {}
  /\ steps = 0
  /\ last = NoRun
  /\ settings = AbsentSettings
  /\ alert = NoAlert

NextLoad ==
  \/ Tick
  \/ View

SpecLoad == InitLoad /\ [][NextLoad]_vars

\* the Settings page: Save Settings on the thresholds of the form
SaveSettings ==
  /\ CanClick
  /\ LET L == load_data(file, now)
     IN /\ df' = L.df
        /\ file' = L.file
        /\ last' = Ran("settings", 0, "", 0, 0, L, 0)
  /\ \E updated_thresholds \in ThresholdInputs :
       settings' = save_settings(updated_thresholds)
  /\ steps' = steps + 1
  /\ UNCHANGED <<now, confirm>>
  /\ RenderOther

\* the latex quantities and the thresholds change, the page shows the colours
InitAlert ==
  /\ file \in InitFiles
  /\ df = <<>>
  /\ now = 1
  /\ confirm = {}
  /\ steps = 0
  /\ last = NoRun
  /\ settings \in {AbsentSettings} \cup {OkSettings(t) : t \in ThresholdInputs}
  /\ alert = NoAlert

NextAlert ==
  \/ View
  \/ ClickSub
  \/ ClickAdd
  \/ EditQty
  \/ SaveSettings

SpecAlert == InitAlert /\ [][NextAlert]_vars

(* ------------------------- claims about loading ----------------------- *)
\* the records a load parses: the seed when the file is absent
Parsed(f) == IF f.state = "absent" THEN initial_data ELSE f.data

LatexRows(d) == {i \in 1..Len(d) : d[i]["category"] = "latex"}

FoilRows(d) == {i \in 1..Len(d) : d[i]["category"] = "foil"}

\* C3 as stated: a load of an absent file returns a two-item seed set, one
\* latex record and one foil record, and leaves the file on disk.
C3_TwoItemSeed ==
  last.seedWrites = 1 =>
    /\ file.state = "ok"
    /\ Len(df) = 2
    /\ Cardinality(LatexRows(df)) = 1
    /\ Cardinality(FoilRows(df)) = 1

\* C3 amended: a load of an absent file returns the four seed records, two
\* latex and two foil, every seed field at its seed value, and afterwards
\* the file exists and holds the records the returned table is built from.
C3_FourItemSeed ==
  last.seedWrites = 1 =>
    /\ file.state = "ok"
    /\ df = DataFrame(file.data)
    /\ Len(df) = 4
    /\ Cardinality(LatexRows(df)) = 2
    /\ Cardinality(FoilRows(df)) = 2
    /\ \A i \in 1..Len(df) :
         \A c \in DOMAIN initial_data[i] :
           /\ c \in DOMAIN file.data[i]
           /\ file.data[i][c] = initial_data[i][c]
           /\ df[i][c] = initial_data[i][c]

C3_Witness == last.op = "view" /\ last.seedWrites = 1 /\ Len(df) = 4

\* C5: migration is idempotent: a record that one load has migrated is left
\* as it is by a further migration pass, whatever the month of that pass.
C5_MigrationIdempotent ==
  (last.op = "view" /\ file.state = "ok") =>
    \A i \in 1..Len(file.data) : \A n \in 1..NumMonths :
      LET again == MigrateEntry(file.data[i], current_month_str(n))
      IN again.entry = file.data[i] /\ ~again.needs_save

\* a record whose usage was attributed to the first month, loaded again in
\* a later month
C5_Witness ==
  /\ last.op = "view" /\ last.writeBacks = 0 /\ now > 1
  /\ file.state = "ok"
  /\ \E i \in 1..Len(file.data) :
       file.data[i]["monthly_usage"] = (current_month_str(1) :> 3)

\* C6: a load gives a record without monthly_usage the mapping
\* {current month: usage} when usage is present and positive and the empty
\* mapping when usage is absent or zero, and removes the usage field.
C6_UsageMigrated ==
  [][(View /\ file.state = "ok") =>
       \A i \in 1..Len(file.data) :
         "monthly_usage" \notin DOMAIN file.data[i] =>
           LET e == file.data[i]
               expected == IF "usage" \in DOMAIN e /\ e["usage"] > 0
                           THEN (current_month_str(now) :> e["usage"])
                           ELSE EmptyUsage
           IN /\ "usage" \notin DOMAIN file'.data[i]
              /\ ~Holds(df'[i], "usage")
              /\ file'.data[i]["monthly_usage"] = expected
              /\ df'[i]["monthly_usage"] = expected]_vars

C6_Witness ==
  /\ last.op = "view" /\ last.writeBacks = 1
  /\ Len(df) = 2
  /\ df[1]["monthly_usage"] = (current_month_str(1) :> 3)
  /\ df[2]["monthly_usage"] = EmptyUsage
  /\ \A i \in 1..2 : ~Holds(df[i], "usage")

\* C7: a load writes the file back once when migration changed a record and
\* not at all when it changed none; a load that follows a load writes
\* nothing and returns the same table.
C7_WriteBackOnce ==
  [][View =>
       /\ last'.writeBacks =
            IF /\ file.state # "malformed"
               /\ \E i \in 1..Len(Parsed(file)) :
                    MigrateEntry(Parsed(file)[i], current_month_str(now)).entry
                      # Parsed(file)[i]
            THEN 1 ELSE 0
       /\ last.op = "view" =>
            /\ last'.writeBacks = 0
            /\ last'.seedWrites = 0
            /\ file' = file
            /\ df' = df]_vars

\* a second load of a file whose first load wrote the migrated records back
C7_Witness ==
  /\ last.op = "view" /\ last.writeBacks = 0 /\ last.seedWrites = 0
  /\ file.state = "ok"
  /\ \E i \in 1..Len(file.data) :
       /\ file.data[i]["id"] = LegacyBase["id"]
       /\ file.data[i]["32in"] = 0

\* C8: a load of a file that does not parse returns the empty table, writes
\* nothing and leaves the file as it is.
C8_MalformedIsEmpty ==
  [][(View /\ file.state = "malformed") =>
       /\ df' = <<>>
       /\ file' = file
       /\ last'.op = "view"
       /\ last'.writeBacks = 0
       /\ last'.seedWrites = 0]_vars

C8_Witness == last.op = "view" /\ file.state = "malformed" /\ df = <<>>

(* ------------------------ claims about the runs ----------------------- *)
QtyFields == LatexSizeSet \cup FoilSizeSet

\* the step is the run of a widget's handler, of one of the kinds ops
Handled(ops) == steps' = steps + 1 /\ last'.op \in ops

\* the table the run's handler starts from
Loaded == load_data(file, now).df

\* C1: when the minus button or the mobile number input reduces a quantity
\* field of a record from old to new, monthly_usage[current month] of that
\* record grows by exactly old - new, a missing key counting as 0.
C1_DecrementCounted ==
  [][Handled({"sub", "qty"}) =>
       LET before == Loaded
           m == current_month_str(now)
       IN \A i \in 1..Len(before) : \A f \in QtyFields :
            (Holds(before[i], f) /\ df'[i][f] < before[i][f]) =>
              Get(df'[i]["monthly_usage"], m)
                = Get(before[i]["monthly_usage"], m) + (before[i][f] - df'[i][f])]_vars

\* a mobile edit that took at least two units off a cell
C1_Witness ==
  /\ last.op = "qty" /\ last.new + 2 <= last.old
  /\ \E i \in 1..Len(df) :
       /\ df[i]["id"] = last.id
       /\ df[i][last.field] = last.new
       /\ DOMAIN df[i]["monthly_usage"] # {}

\* C2: the plus button, a mobile edit that raises the value, a scan and
\* Save Changes leave the monthly_usage of every record as it was.
C2_IncreaseKeepsUsage ==
  [][(\/ Handled({"add", "edit", "scan"})
      \/ (Handled({"qty"}) /\ last'.new > last'.old)) =>
       LET before == Loaded
       IN /\ Len(df') = Len(before)
          /\ \A i \in 1..Len(before) :
               df'[i]["monthly_usage"] = before[i]["monthly_usage"]]_vars

\* the plus button pressed on a record that has recorded usage
C2_Witness ==
  /\ last.op = "add" /\ last.new = last.old + 1
  /\ \E i \in 1..Len(df) :
       df[i]["id"] = last.id /\ DOMAIN df[i]["monthly_usage"] # {}

\* C4 as stated: every record of the table, after a load and after every
\* operation, holds every field of the full set.
C4_FullSuperset ==
  last.op # "none" =>
    \A i \in 1..Len(df) : \A c \in AllFields : Holds(df[i], c)

MutatingOps == {"sub", "add", "qty", "edit", "delete", "create", "scan"}

\* C9: after a handler that saved, the file holds exactly the records of
\* the table; a handler that did not save left the table as loaded.
C9_FileIsTable ==
  last.op \in MutatingOps =>
    /\ last.saves = 1 => file = OkFile(to_dict(df))
    /\ last.saves = 0 =>
         \/ file.state = "malformed" /\ df = <<>>
         \/ file.state = "ok" /\ df = DataFrame(file.data)

\* a scan that matched a candidate
C9_Witness ==
  /\ last.op = "scan" /\ last.new > 0 /\ last.saves = 1
  /\ Len(df) = 4

\* C10: Create Entry appends a record whose id is the largest existing id
\* plus one, or 1 when the table is empty, and leaves the others as they were.
C10_NewId ==
  [][Handled({"create"}) =>
       LET before == Loaded
           created == df'[Len(df')]["id"]
       IN /\ Len(df') = Len(before) + 1
          /\ IF Len(before) = 0
             THEN created = 1
             ELSE /\ \A k \in 1..Len(before) : before[k]["id"] < created
                  /\ \E k \in 1..Len(before) : created = before[k]["id"] + 1
          /\ \A k \in 1..Len(before) : \A c \in DOMAIN before[k] :
               df'[k][c] = before[k][c]]_vars

\* a record created next to the four seed records
C10_Witness ==
  /\ last.op = "create" /\ last.id = 5
  /\ Len(df) = 5 /\ df[5]["id"] = 5

(* ---------------------------- claims about ids ------------------------ *)

\* the id column of a table, in row order
Ids(d) == [k \in 1..Len(d) |-> d[k]["id"]]

IdSet(d) == {d[k]["id"] : k \in 1..Len(d)}

\* C11: no two records of the table or of the file share an id, and every
\* operation leaves the id of each record it keeps as it was: a delete takes
\* one id out of the column, Create Entry appends one, every other run
\* leaves the column as loaded.
C11_IdsUniqueAndStable ==
  /\ [](/\ \A i, j \in 1..Len(df) : df[i]["id"] = df[j]["id"] => i = j
        /\ \A i, j \in 1..Len(file.data) :
             file.data[i]["id"] = file.data[j]["id"] => i = j)
  /\ [][Handled(MutatingOps \cup {"confirm"}) =>
          LET before == Ids(Loaded)
              after == Ids(df')
          IN IF last'.op = "delete"
             THEN \E i \in 1..Len(before) :
                    after = [k \in 1..(Len(before) - 1) |->
                               IF k < i THEN before[k] ELSE before[k + 1]]
             ELSE IF last'.op = "create"
             THEN SubSeq(after, 1, Len(before)) = before
             ELSE after = before]_vars

\* two records created one after the other next to the four seed records
C11_Witness ==
  /\ last.op = "create" /\ last.id = 6
  /\ Ids(df) = <<1, 2, 3, 4, 5, 6>>

AllOps == MutatingOps \cup {"confirm"}

\* C12: a record leaves the file or the table only in the run of its own
\* delete button, and that run starts with the record's Confirm Delete
\* checkbox ticked; no other run removes a record.
C12_RemovedOnlyByConfirmedDelete ==
  [][LET ByDelete(id) == /\ Handled({"delete"})
                         /\ last'.id = id
                         /\ id \in confirm
     IN /\ \A id \in IdSet(file.data) \ IdSet(file'.data) : ByDelete(id)
        /\ Handled(AllOps) =>
             \A id \in IdSet(Loaded) \ IdSet(df') : ByDelete(id)]_vars

\* a seed record deleted after its checkbox was ticked
C12_Witness ==
  /\ last.op = "delete" /\ last.saves = 1
  /\ Len(df) = 3 /\ last.id \notin IdSet(df)
  /\ last.id \notin IdSet(file.data) /\ last.id \notin confirm

(* --------------------------- claims about scans ----------------------- *)

FailedCalls == {"no key", "raise", "garbage"}

\* C13: when the recognition call fails (no credential, an exception of the
\* service, an answer that is not JSON) the run shows an error message,
\* finishes, and leaves the table as loaded and the file as it was.
C13_FailedCallChangesNothing ==
  [][(Handled({"scan"}) /\ last'.call \in FailedCalls) =>
       /\ last'.msg # ""
       /\ last'.items = <<>>
       /\ df' = Loaded
       /\ file' = file
       /\ last'.saves = 0]_vars

\* an answer that is not JSON, over the seed table
C13_Witness ==
  /\ last.op = "scan" /\ last.call = "garbage" /\ last.msg = "AI Error"
  /\ Len(df) = 4 /\ file = OkFile(to_dict(df))

\* a candidate the loop does not skip for its size
KnownSize(item) ==
  ~(/\ ItemGet(item, "category", "None") = "latex"
    /\ ItemGet(item, "size", "None") \notin LatexSizeSet)

\* C14: a latex candidate whose size is none of the five names changes no
\* record, and the table after the scan is the table the same batch yields
\* with those candidates taken out.
C14_UnknownSizeSkipped ==
  [][Handled({"scan"}) =>
       LET before == Loaded
           known == SelectSeq(last'.items, KnownSize)
       IN /\ df' = ScanShipment(before, known).df
          /\ last'.new = ScanShipment(before, known).updated_count
          /\ known = <<>> => df' = before /\ last'.saves = 0]_vars

\* a candidate of unknown size ahead of one that matched a seed record
C14_Witness ==
  /\ last.op = "scan" /\ Len(last.items) = 2
  /\ ~KnownSize(last.items[1]) /\ KnownSize(last.items[2])
  /\ last.new = 1 /\ last.saves = 1
  /\ \E i \in 1..Len(df) : df[i]["id"] = 1 /\ df[i]["11in"] = 6

\* a record's text equals a candidate's, letter case aside
SameIgnoringCase(cell, value) == cell # NaNStr /\ Lower(cell) = Lower(value)

\* the record is of the candidate's category and agrees with it on brand and
\* color, and on design for a foil
Matches(row, item) ==
  LET category == ItemGet(item, "category", "None")
  IN /\ category \in {"latex", "foil"}
     /\ row["category"] = category
     /\ SameIgnoringCase(row["brand"], ItemGet(item, "brand", "Unknown"))
     /\ SameIgnoringCase(row["color"], ItemGet(item, "color", "Unknown"))
     /\ category = "foil" =>
          SameIgnoringCase(row["design"], ItemGet(item, "design", "Unknown"))

\* the quantity field a candidate counts towards
CandidateField(item) ==
  IF ItemGet(item, "category", "None") = "latex" THEN ItemGet(item, "size", "None")
  ELSE IF ItemGet(item, "size", "None") = "large" THEN "large" ELSE "small"

\* C15: a scan keeps the rows and their ids; every candidate of a known size
\* that matches a record adds exactly 1 to its size field in one matching
\* record (a foil size other than "large" counts as small), nothing else
\* changes, and a batch without a match leaves table and file as they were.
C15_ScanOnlyIncrements ==
  [][Handled({"scan"}) =>
       LET before == Loaded
           items == last'.items
           n == Len(items)
           M(j) == IF KnownSize(items[j])
                   THEN {k \in 1..Len(before) : Matches(before[k], items[j])}
                   ELSE {}
       IN /\ Ids(df') = Ids(before)
          /\ \E t \in [1..n -> 0..Len(before)] :
               /\ \A j \in 1..n : IF M(j) = {} THEN t[j] = 0 ELSE t[j] \in M(j)
               /\ \A k \in 1..Len(before) :
                    /\ DOMAIN df'[k] = DOMAIN before[k]
                    /\ \A c \in DOMAIN before[k] :
                         IF c \in QtyFields
                         THEN df'[k][c] = before[k][c] + Cardinality(
                                {j \in 1..n : t[j] = k /\ CandidateField(items[j]) = c})
                         ELSE df'[k][c] = before[k][c]
          /\ (\A j \in 1..n : M(j) = {}) =>
               df' = before /\ file' = file /\ last'.saves = 0]_vars

\* a foil candidate of size "medium" counted on the small field of the
\* record created just before
C15_Witness ==
  /\ last.op = "scan" /\ last.new = 1 /\ last.saves = 1
  /\ Len(last.items) = 1 /\ last.items[1]["size"] = "medium"
  /\ Len(df) = 5 /\ df[5]["category"] = "foil"
  /\ df[5]["small"] = 1 /\ df[5]["large"] = 0

(* ------------------------- claims about thresholds -------------------- *)

\* C16: the colour shown for a latex quantity is red (low) when qty <= low,
\* else orange (medium) when qty <= medium, else green (normal), and a run
\* that only renders leaves the table, the file and the settings as they were.
C16_ThresholdClasses ==
  /\ [](\A k \in DOMAIN alert : \A size \in LatexSizeSet :
           LET qty == df[k][size]
               low == settings.data[size].low
               medium == settings.data[size].medium
           IN /\ qty <= low => alert[k][size] = "red"
              /\ (qty > low /\ qty <= medium) => alert[k][size] = "orange"
              /\ (qty > low /\ qty > medium) => alert[k][size] = "green")
  /\ [][(View /\ last.op # "none") => UNCHANGED <<file, df, settings>>]_vars

\* with low 1 and medium 3: quantity 1 shown red, 3 orange and 4 green
C16_Witness ==
  /\ settings = OkSettings([size \in LatexSizeSet |-> [low |-> 1, medium |-> 3]])
  /\ \E k \in DOMAIN alert :
       /\ df[k]["17in"] = 1 /\ alert[k]["17in"] = "red"
  /\ \E k \in DOMAIN alert :
       /\ df[k]["24in"] = 3 /\ alert[k]["24in"] = "orange"
       /\ df[k]["17in"] = 4 /\ alert[k]["17in"] = "green"

(* --------------------------- claims about usage ----------------------- *)

\* the units a run took off the quantity fields of a row
RECURSIVE Removed(_, _, _)
Removed(before, after, fields) ==
  IF fields = {} THEN 0
  ELSE LET f == CHOOSE x \in fields : TRUE
           here == IF Holds(before, f) /\ after[f] < before[f]
                   THEN before[f] - after[f] ELSE 0
       IN here + Removed(before, after, fields \ {f})

\* C17: in every run that changes a quantity, each record's monthly_usage
\* entry of the current month grows by the units the run removed from that
\* record and the entry of every other month stays as it was, so the entry of
\* a month is its starting value plus all that was removed during that month.
C17_UsageAccumulates ==
  [][Handled({"sub", "add", "qty"}) =>
       LET before == Loaded
           m == current_month_str(now)
       IN /\ Len(df') = Len(before)
          /\ \A i \in 1..Len(before) :
               LET old == before[i]["monthly_usage"]
                   new == df'[i]["monthly_usage"]
                   removed == Removed(before[i], df'[i], QtyFields)
               IN /\ Get(new, m) = Get(old, m) + removed
                  /\ \A k \in (DOMAIN old \cup DOMAIN new) \ {m} :
                       /\ k \in DOMAIN old /\ k \in DOMAIN new
                       /\ new[k] = old[k]]_vars

\* two decrements of the same month added up next to an earlier month
C17_Witness ==
  /\ last.op \in {"sub", "qty"} /\ steps = 2
  /\ \E i \in 1..Len(df) :
       /\ df[i]["id"] = last.id
       /\ df[i]["24in"] = 0
       /\ df[i]["monthly_usage"] =
            ("2025-02" :> 5 @@ current_month_str(now) :> 2)

(* ------------------------- claims about quantities -------------------- *)

\* C18 as stated: every quantity field of every record of the table is a
\* non-negative integer; the minus button on a field that is 0 changes no
\* quantity and no usage and writes nothing, and the mobile number input
\* never stores a value below 0.
C18_QuantitiesNonNegative ==
  /\ [](last.op # "none" =>
          \A i \in 1..Len(df) : \A f \in QtyFields :
            Holds(df[i], f) /\ df[i][f] >= 0)
  /\ [][(Handled({"sub"}) /\ last'.old = 0) =>
          df' = Loaded /\ file' = file /\ last'.saves = 0]_vars
  /\ [][Handled({"qty"}) => last'.new >= 0]_vars

(* ------------------------- claims about migration --------------------- *)

\* C19 as stated: migration only adds fields: every field a record of the
\* file holds before the load, the legacy usage aside, holds the same value
\* afterwards in the file and in the returned table; a record without
\* foil_type keeps the design, small and large it has.
C19_MigrationOnlyBackfills ==
  [][(View /\ file.state = "ok") =>
       \A i \in 1..Len(file.data) :
         \A c \in DOMAIN file.data[i] \ {"usage"} :
           /\ c \in DOMAIN file'.data[i]
           /\ file'.data[i][c] = file.data[i][c]
           /\ df'[i][c] = file.data[i][c]]_vars

====
